---------------------------- MODULE Spec2Model ----------------------------
(***************************************************************************)
(* mpdscribble: main(), the configuration loader (ReadConfig.cxx,          *)
(* IniFile.cxx) and the playback handlers of Instance (Main.cxx).          *)
(*                                                                         *)
(* Durations are std::chrono::steady_clock::duration values.  The model    *)
(* counts them in units of 15 seconds, so that 30 seconds, one minute      *)
(* and four minutes are 2, 4 and 16.                                       *)
(***************************************************************************)
EXTENDS Integers, Sequences, FiniteSets, TLC

VARIABLES
    pc,            \* position of main(): start, read, configured, run, exit, failed
    error,         \* message of the exception that ended main(), "" when none
    config,        \* struct Config: conf, loc, scrobblers
    data,          \* IniParser::data, the IniFile being built
    section,       \* IniParser::section, the section new keys go to
    no,            \* ReadIniFile: number of the next line
    alphabet,      \* the lines the configuration file is drawn from
    constructed,   \* whether Instance has been constructed
    now,           \* std::chrono::steady_clock::now()
    stopwatch,     \* Instance::stopwatch
    observer,      \* MpdObserver: idle, playing, paused
    song,          \* the struct mpd_song MPD is playing, NoSong when none
    songChanges,   \* number of MultiScrobbler::SongChange calls
    nowPlaying,    \* duration given to the latest MultiScrobbler::NowPlaying
    journalWrites, \* number of MultiScrobbler::WriteJournal calls
    calls,         \* the calls made by the latest step, in order
    played,        \* time the current song spent playing since its Started
    paused,        \* whether the clock advanced while the current song was paused
    ple            \* played_long_enough applied on its own: elapsed, length, result

vars == <<pc, error, config, data, section, no, alphabet,
          constructed, now, stopwatch, observer, song, songChanges,
          nowPlaying, journalWrites, calls, played, paused, ple>>

configVars == <<error, config, data, section, no, alphabet>>
instanceVars == <<constructed, now, stopwatch, observer, song, songChanges,
                  nowPlaying, journalWrites, played, paused>>

-----------------------------------------------------------------------------
(* Bounds of the model *)

\* ReadIniFile reads at most this many lines
MaxLines == 6
\* the steady clock stops advancing here
MaxTime == 17
\* no song is submitted once this many submissions were made
MaxSubmissions == 2
\* the journal timer fires at most this many times
MaxTimerSaves == 1

-----------------------------------------------------------------------------
(* Program constants, in units of 15 seconds *)

FourMinutes == 16
ThirtySeconds == 2
OneMinute == 4

\* mpd_song durations the player offers: unknown, 15 s, 30 s, 3 min
SongLengths == {0, 1, 2, 12}
\* elapsed values MPD reports on a Playing tick: 0 s, 45 s, 1 min
ReportedElapsed == {0, 3, 4}

-----------------------------------------------------------------------------
(* IniFile.cxx *)

EmptyMap == [k \in {} |-> ""]

\* the section names of a file, in the iteration order of std::map<std::string, ...>
SectionOrder == <<"", "a", "b">>

IsValidSectionName(name) ==
    name \in {"a", "b"}

IsValidKey(name) ==
    name \in {"file", "url", "username", "password", "journal", "cache",
              "pidfile", "daemon_user", "log", "host", "port", "proxy",
              "journal_interval", "cache_interval", "verbose"}

\* A line of the file, after StripLeft: kind is "empty" (blank or comment),
\* "section" ('[' in front), "key" (a key character in front) or "other";
\* name is the text before the separator (']' or '='), sep whether the
\* separator is there, value the stripped text after it.
Line(kind, name, sep, value) ==
    [kind |-> kind, name |-> name, sep |-> sep, value |-> value]

\* The outcome of IniParser::ParseLine: the parser's data and section after
\* the line, and the message of the exception it threw ("" when none).
Parsed(d, s, e) ==
    [data |-> d, section |-> s, error |-> e]

ParseLine(d, s, line) ==
    IF line.kind = "empty" THEN Parsed(d, s, "")
    ELSE IF line.kind = "section" THEN
        IF ~line.sep THEN Parsed(d, s, "Missing ']'")
        ELSE IF ~IsValidSectionName(line.name) THEN Parsed(d, s, "Invalid section name")
        ELSE IF line.value # "" THEN Parsed(d, s, "Garbage after section")
        ELSE IF line.name \in DOMAIN d THEN Parsed(d, s, "Duplicate section name")
        ELSE Parsed((line.name :> EmptyMap) @@ d, line.name, "")
    ELSE IF line.kind = "key" THEN
        IF ~line.sep THEN Parsed(d, s, "Missing '='")
        ELSE IF ~IsValidKey(line.name) THEN Parsed(d, s, "Invalid key")
        ELSE LET d1 == IF DOMAIN d = {} THEN ("" :> EmptyMap) ELSE d
                 s1 == IF DOMAIN d = {} THEN "" ELSE s
             IN  IF line.name \in DOMAIN d1[s1]
                 THEN Parsed(d1, s1, "Duplicate key")
                 ELSE Parsed([d1 EXCEPT ![s1] = (line.name :> line.value) @@ @], s1, "")
    ELSE Parsed(d, s, "Syntax error")

-----------------------------------------------------------------------------
(* ReadConfig.cxx *)

AS_HOST == "https://post.audioscrobbler.com/"
FILE_CACHE == "/var/cache/mpdscribble/mpdscribble.cache"

\* with HOME set, as a configuration file found under it implies
GetHomeCachePath == "~/.cache/mpdscribble/mpdscribble.cache"

get_default_cache_path(cfg) ==
    CASE cfg.loc = "file_home" -> GetHomeCachePath
      [] cfg.loc = "file_etc" -> FILE_CACHE
      [] OTHER -> ""

GetStdString(sec, key) ==
    IF key \in DOMAIN sec THEN sec[key] ELSE ""

ScrobblerConfig(name, url, username, password, journal, file) ==
    [name |-> name, url |-> url, username |-> username,
     password |-> password, journal |-> journal, file |-> file]

\* The outcome of load_scrobbler_config: the ScrobblerConfig it returns, or
\* the message of the exception it throws.
Loaded(s, e) ==
    [scrobbler |-> s, error |-> e]

\* load_scrobbler_config without the check of 'password'
load_scrobbler_config_no_password(cfg, section_name, sec) ==
    LET name == IF section_name = "" THEN "last.fm" ELSE section_name
        file == IF section_name = "" THEN "" ELSE GetStdString(sec, "file")
        url == IF section_name = "" THEN AS_HOST
               ELSE IF file = "" THEN GetStdString(sec, "url") ELSE ""
        username == IF file = "" THEN GetStdString(sec, "username") ELSE ""
        password == IF file = "" THEN GetStdString(sec, "password") ELSE ""
        journal == GetStdString(sec, "journal")
        none == ScrobblerConfig("", "", "", "", "", "")
    IN  IF section_name # "" /\ file = "" /\ url = ""
        THEN Loaded(none, "Section has neither 'file' nor 'url'")
        ELSE IF file = "" /\ username = "" THEN Loaded(none, "No 'username'")
        ELSE Loaded(ScrobblerConfig(name, url, username, password, journal, file), "")

load_scrobbler_config(cfg, section_name, sec) ==
    LET name == IF section_name = "" THEN "last.fm" ELSE section_name
        file == IF section_name = "" THEN "" ELSE GetStdString(sec, "file")
        url == IF section_name = "" THEN AS_HOST
               ELSE IF file = "" THEN GetStdString(sec, "url") ELSE ""
        username == IF file = "" THEN GetStdString(sec, "username") ELSE ""
        password == IF file = "" THEN GetStdString(sec, "password") ELSE ""
        journal0 == GetStdString(sec, "journal")
        journal == IF journal0 = "" /\ section_name = ""
                   THEN IF GetStdString(sec, "cache") # ""
                        THEN GetStdString(sec, "cache")
                        ELSE get_default_cache_path(cfg)
                   ELSE journal0
        none == ScrobblerConfig("", "", "", "", "", "")
    IN  IF section_name # "" /\ file = "" /\ url = ""
        THEN Loaded(none, "Section has neither 'file' nor 'url'")
        ELSE IF file = "" /\ username = "" THEN Loaded(none, "No 'username'")
        ELSE IF file = "" /\ password = "" THEN Loaded(none, "No 'password'")
        ELSE Loaded(ScrobblerConfig(name, url, username, password, journal, file), "")

\* The for loop of load_config_file from the i-th section of the file on:
\* the Config it leaves and the message of the exception that ended it.
RECURSIVE LoadSections(_, _, _)
LoadSections(cfg, file, i) ==
    IF i > Len(SectionOrder) THEN [config |-> cfg, error |-> ""]
    ELSE LET name == SectionOrder[i] IN
         IF name \notin DOMAIN file THEN LoadSections(cfg, file, i + 1)
         ELSE IF name = "" /\ "username" \notin DOMAIN file[name]
              THEN LoadSections(cfg, file, i + 1)
         ELSE LET r == load_scrobbler_config(cfg, name, file[name]) IN
              IF r.error # "" THEN [config |-> cfg, error |-> r.error]
              ELSE LoadSections([cfg EXCEPT !.scrobblers = <<r.scrobbler>> \o @],
                                file, i + 1)

\* strtol(s, &endptr, 10) of load_integer: whether the whole of a non-empty
\* s was a number, and the number.
StrToL(s) ==
    CASE s = "7" -> [ok |-> TRUE, value |-> 7]
      [] s = "-5" -> [ok |-> TRUE, value |-> 0 - 5]
      [] OTHER -> [ok |-> FALSE, value |-> 0]

load_string(file, name, value) ==
    IF value # "" THEN value
    ELSE IF "" \notin DOMAIN file THEN value
    ELSE GetStdString(file[""], name)

\* The outcome of load_integer and load_unsigned: *value_r afterwards, the
\* bool returned, and the message of the exception thrown.
Number(v, ok, e) ==
    [value |-> v, ok |-> ok, error |-> e]

load_integer(file, name, value) ==
    IF value # 0 - 1 THEN Number(value, FALSE, "")
    ELSE IF "" \notin DOMAIN file THEN Number(value, FALSE, "")
    ELSE IF name \notin DOMAIN file[""] THEN Number(value, FALSE, "")
    ELSE LET n == StrToL(file[""][name]) IN
         IF ~n.ok THEN Number(value, FALSE, "Not a number")
         ELSE Number(n.value, TRUE, "")

load_unsigned(file, name, value) ==
    LET r == load_integer(file, name, 0 - 1) IN
    IF r.error # "" THEN Number(value, FALSE, r.error)
    ELSE IF ~r.ok THEN Number(value, FALSE, "")
    ELSE IF r.value < 0 THEN Number(value, FALSE, "Setting must not be negative")
    ELSE Number(r.value, TRUE, "")

\* load_config_file after ReadIniFile returned `file`: the Config it leaves
\* and the message of the exception that ended it.
load_config_file(cfg, file) ==
    LET c1 == [cfg EXCEPT !.pidfile = load_string(file, "pidfile", @),
                          !.daemon_user = load_string(file, "daemon_user", @),
                          !.log = load_string(file, "log", @),
                          !.host = load_string(file, "host", @)]
        port == load_unsigned(file, "port", c1.port)
        c2 == [c1 EXCEPT !.port = port.value,
                         !.proxy = load_string(file, "proxy", @)]
        ji == load_unsigned(file, "journal_interval", c2.journal_interval)
        ci == load_unsigned(file, "cache_interval", ji.value)
        c3 == [c2 EXCEPT !.journal_interval = IF ji.ok THEN ji.value ELSE ci.value]
        verbose == load_integer(file, "verbose", c3.verbose)
        c4 == [c3 EXCEPT !.verbose = verbose.value]
    IN  IF port.error # "" THEN [config |-> c1, error |-> port.error]
        ELSE IF ji.error # "" THEN [config |-> c2, error |-> ji.error]
        ELSE IF ~ji.ok /\ ci.error # "" THEN [config |-> c2, error |-> ci.error]
        ELSE IF verbose.error # "" THEN [config |-> c3, error |-> verbose.error]
        ELSE LoadSections(c4, file, 1)

FILE_HOME_CONF == "~/.config/mpdscribble/mpdscribble.conf"
FILE_CONF == "/etc/mpdscribble.conf"

\* get_default_config_path in an environment where `found` tells which of
\* the default files exists: the path it returns and config.loc afterwards.
get_default_config_path(cfg, found) ==
    CASE found = "file_home" -> [conf |-> FILE_HOME_CONF, loc |-> "file_home"]
      [] found = "file_etc" -> [conf |-> FILE_CONF, loc |-> "file_etc"]
      [] OTHER -> [conf |-> "", loc |-> cfg.loc]

\* on a system not booted with systemd
get_default_log_path == "syslog"

\* getenv("http_proxy"), "" for nullptr: the environment sets none
http_proxy == ""

\* file_read_config without the check that a scrobbler is configured
file_read_config_unchecked(cfg, file) ==
    LET r == load_config_file(cfg, file)
        c == r.config
    IN  IF r.error # "" THEN r
        ELSE [config |-> [c EXCEPT
                             !.log = IF @ = "" THEN get_default_log_path ELSE @,
                             !.proxy = IF @ = "" /\ http_proxy # ""
                                       THEN http_proxy ELSE @,
                             !.verbose = IF @ = 0 - 1 THEN 1 ELSE @],
              error |-> ""]

\* file_read_config once ReadIniFile returned `file`: the rest of
\* load_config_file, the checks and the defaults; the Config it leaves and the
\* message of the exception that ended it.
file_read_config(cfg, file) ==
    LET r == load_config_file(cfg, file)
        c == r.config
    IN  IF r.error # "" THEN r
        ELSE IF c.scrobblers = <<>>
        THEN [config |-> c, error |-> "No audioscrobbler host configured"]
        ELSE [config |-> [c EXCEPT
                             !.log = IF @ = "" THEN get_default_log_path ELSE @,
                             !.proxy = IF @ = "" /\ http_proxy # ""
                                       THEN http_proxy ELSE @,
                             !.verbose = IF @ = 0 - 1 THEN 1 ELSE @],
              error |-> ""]

-----------------------------------------------------------------------------
(* time/Stopwatch.hxx *)

Stopwatch(start, duration, running) ==
    [start |-> start, duration |-> duration, running |-> running]

GetDuration(sw, t) ==
    IF sw.running THEN sw.duration + (t - sw.start) ELSE sw.duration

Start(sw, t) ==
    Stopwatch(t, 0, TRUE)

Stop(sw, t) ==
    Stopwatch(sw.start, GetDuration(sw, t), FALSE)

Resume(sw, t) ==
    Stopwatch(t, GetDuration(sw, t), TRUE)

-----------------------------------------------------------------------------
(* Main.cxx: the playback handlers of Instance *)

NoSong == [id |-> "none", duration |-> 0]

Song(duration) ==
    [id |-> "song", duration |-> duration]

GetSongDuration(sng) ==
    sng.duration

\* played_long_enough with "at least 4 minutes"
played_long_enough_at_least(elapsed, length) ==
    elapsed >= FourMinutes \/
    (length >= ThirtySeconds /\ elapsed > length \div 2)

played_long_enough(elapsed, length) ==
    elapsed > FourMinutes \/
    (length >= ThirtySeconds /\ elapsed > length \div 2)

\* song_repeated with "at most 1 minute"
song_repeated_at_most(sng, elapsed, prev_elapsed) ==
    elapsed <= OneMinute /\ prev_elapsed > elapsed /\
    played_long_enough(prev_elapsed - elapsed, GetSongDuration(sng))

\* song_repeated on any drop of the elapsed time
song_repeated_any_drop(sng, elapsed, prev_elapsed) ==
    elapsed < OneMinute /\ prev_elapsed > elapsed

song_repeated(sng, elapsed, prev_elapsed) ==
    elapsed < OneMinute /\ prev_elapsed > elapsed /\
    played_long_enough(prev_elapsed - elapsed, GetSongDuration(sng))

\* A call made while a step runs: a handler of Instance entered (length is
\* the elapsed time OnMpdPlaying is given, 0 for the others), or a method of
\* MultiScrobbler called with this length and love flag.
Call(name, length, love) ==
    [call |-> name, length |-> length, love |-> love]

\* The part of Instance the handlers read and write; t is the steady clock.
Inst(sw, changes, np, cs, t) ==
    [stopwatch |-> sw, songChanges |-> changes, nowPlaying |-> np,
     calls |-> cs, now |-> t]

OnMpdSongChanged(i, sng) ==
    [i EXCEPT !.stopwatch = Start(@, i.now),
              !.nowPlaying = GetSongDuration(sng),
              !.calls = Append(@, Call("NowPlaying", GetSongDuration(sng), FALSE))]

\* OnMpdPaused that leaves the stopwatch running
OnMpdPaused_running(i) ==
    [i EXCEPT !.calls = Append(@, Call("OnMpdPaused", 0, FALSE))]

OnMpdPaused(i) ==
    [i EXCEPT !.stopwatch = Stop(@, i.now),
              !.calls = Append(@, Call("OnMpdPaused", 0, FALSE))]

OnMpdResumed(i) ==
    [i EXCEPT !.stopwatch = Resume(@, i.now),
              !.calls = Append(@, Call("OnMpdResumed", 0, FALSE))]

OnMpdStarted(i, sng) ==
    OnMpdSongChanged([i EXCEPT !.calls = Append(@, Call("OnMpdStarted", 0, FALSE))],
                     sng)

\* OnMpdEnded without the played_long_enough check
OnMpdEnded_unchecked(i, sng, love) ==
    [i EXCEPT !.songChanges = @ + 1,
              !.calls = @ \o <<Call("OnMpdEnded", 0, love),
                                Call("SongChange",
                                     IF GetSongDuration(sng) > 0
                                     THEN GetSongDuration(sng)
                                     ELSE GetDuration(i.stopwatch, i.now),
                                     love)>>]

OnMpdEnded(i, sng, love) ==
    LET elapsed == GetDuration(i.stopwatch, i.now)
        length == GetSongDuration(sng)
        entered == [i EXCEPT !.calls = Append(@, Call("OnMpdEnded", 0, love))]
    IN  IF ~played_long_enough(elapsed, length) THEN entered
        ELSE [entered EXCEPT
                 !.songChanges = @ + 1,
                 !.calls = Append(@, Call("SongChange",
                                          IF length > 0 THEN length ELSE elapsed,
                                          love))]

OnMpdPlaying(i, sng, elapsed) ==
    LET prev_elapsed == GetDuration(i.stopwatch, i.now)
        entered == [i EXCEPT !.calls = Append(@, Call("OnMpdPlaying", elapsed, FALSE))]
    IN  IF song_repeated(sng, elapsed, prev_elapsed)
        THEN OnMpdStarted(OnMpdEnded(entered, sng, FALSE), sng)
        ELSE entered

-----------------------------------------------------------------------------
(* ReadConfig.cxx: file_read_config, as main() runs it *)

Fail(msg) ==
    /\ pc' = "failed"
    /\ error' = msg

NoSection == "(none)"

\* file_read_config up to the fopen of ReadIniFile
FileReadConfigBegin ==
    /\ pc = "start"
    /\ \E found \in {"file_home", "file_etc", "none"}, readable \in BOOLEAN :
         LET def == get_default_config_path(config, found)
             cfg == IF config.conf = ""
                    THEN [config EXCEPT !.conf = def.conf, !.loc = def.loc]
                    ELSE config
         IN  /\ config' = cfg
             /\ IF cfg.conf = "" THEN Fail("cannot find configuration file")
                ELSE IF ~readable THEN Fail("Failed to open")
                ELSE pc' = "read" /\ error' = ""
    /\ UNCHANGED <<data, section, no, alphabet, instanceVars, calls, ple>>

\* ReadIniFile: fgets returns a line and IniParser::ParseLine takes it; an
\* exception unwinds the parser
ReadLine ==
    /\ pc = "read"
    /\ no <= MaxLines
    /\ \E line \in alphabet :
         LET r == ParseLine(data, section, line) IN
         IF r.error # ""
         THEN /\ Fail(r.error)
              /\ data' = EmptyMap
              /\ section' = NoSection
              /\ no' = 1
         ELSE /\ pc' = "read"
              /\ error' = ""
              /\ data' = r.data
              /\ section' = r.section
              /\ no' = no + 1
    /\ UNCHANGED <<config, alphabet, instanceVars, calls, ple>>

\* ReadIniFile: fgets returns nullptr and the parser is committed; the rest
\* of file_read_config
EndOfFile ==
    /\ pc = "read"
    /\ LET r == file_read_config(config, data) IN
       /\ config' = r.config
       /\ IF r.error # "" THEN Fail(r.error)
          ELSE pc' = "configured" /\ error' = ""
    /\ data' = EmptyMap
    /\ section' = NoSection
    /\ no' = 1
    /\ UNCHANGED <<alphabet, instanceVars, calls, ple>>

-----------------------------------------------------------------------------
(* Main.cxx: main() *)

\* log_init ... Gcrypt::Init, then Instance instance(config); any of them
\* may throw
Startup ==
    /\ pc = "configured"
    /\ \E ok \in BOOLEAN :
         IF ok THEN pc' = "run" /\ error' = "" /\ constructed' = TRUE
         ELSE Fail("startup failed") /\ constructed' = FALSE
    /\ UNCHANGED <<config, data, section, no, alphabet, now,
                   stopwatch, observer, song, songChanges, nowPlaying,
                   journalWrites, played, paused, calls, ple>>

ThisInstance ==
    Inst(stopwatch, songChanges, nowPlaying, <<>>, now)

\* the handlers' writes to Instance
Handled(i) ==
    /\ stopwatch' = i.stopwatch
    /\ songChanges' = i.songChanges
    /\ nowPlaying' = i.nowPlaying
    /\ calls' = i.calls

\* the steady clock advances while the event loop waits
Tick ==
    /\ pc = "run"
    /\ now < MaxTime
    /\ now' = now + 1
    /\ played' = IF observer = "playing" THEN played + 1 ELSE played
    /\ paused' = (paused \/ observer = "paused")
    /\ calls' = <<>>
    /\ UNCHANGED <<pc, configVars, constructed, stopwatch, observer, song,
                   songChanges, nowPlaying, journalWrites, ple>>

MpdStarted ==
    /\ pc = "run"
    /\ observer = "idle"
    /\ \E d \in SongLengths :
         /\ song' = Song(d)
         /\ Handled(OnMpdStarted(ThisInstance, Song(d)))
    /\ observer' = "playing"
    /\ played' = 0
    /\ paused' = FALSE
    /\ UNCHANGED <<pc, configVars, constructed, now, journalWrites, ple>>

MpdPlaying ==
    /\ pc = "run"
    /\ observer = "playing"
    /\ \E elapsed \in ReportedElapsed :
         LET i == OnMpdPlaying(ThisInstance, song, elapsed)
             restarted == \E n \in 1..Len(i.calls) : i.calls[n].call = "OnMpdStarted"
         IN  /\ i.songChanges <= MaxSubmissions
             /\ Handled(i)
             /\ played' = IF restarted THEN 0 ELSE played
             /\ paused' = IF restarted THEN FALSE ELSE paused
    /\ UNCHANGED <<pc, configVars, constructed, now, observer, song,
                   journalWrites, ple>>

MpdPaused ==
    /\ pc = "run"
    /\ observer = "playing"
    /\ Handled(OnMpdPaused(ThisInstance))
    /\ observer' = "paused"
    /\ UNCHANGED <<pc, configVars, constructed, now, song, journalWrites,
                   played, paused, ple>>

MpdResumed ==
    /\ pc = "run"
    /\ observer = "paused"
    /\ Handled(OnMpdResumed(ThisInstance))
    /\ observer' = "playing"
    /\ UNCHANGED <<pc, configVars, constructed, now, song, journalWrites,
                   played, paused, ple>>

MpdEnded ==
    /\ pc = "run"
    /\ observer \in {"playing", "paused"}
    /\ \E love \in BOOLEAN :
         LET i == OnMpdEnded(ThisInstance, song, love) IN
         /\ i.songChanges <= MaxSubmissions
         /\ Handled(i)
    /\ observer' = "idle"
    /\ song' = NoSong
    /\ played' = 0
    /\ paused' = FALSE
    /\ UNCHANGED <<pc, configVars, constructed, now, journalWrites, ple>>

\* Instance::OnSaveJournalTimer
OnSaveJournalTimer ==
    /\ pc = "run"
    /\ journalWrites < MaxTimerSaves
    /\ journalWrites' = journalWrites + 1
    /\ calls' = <<Call("WriteJournal", 0, FALSE)>>
    /\ UNCHANGED <<pc, configVars, constructed, now, stopwatch, observer, song,
                   songChanges, nowPlaying, played, paused, ple>>

\* Shutdown that writes the journal only when a song was submitted
Shutdown_IfSubmitted ==
    /\ pc = "run"
    /\ pc' = "exit"
    /\ journalWrites' = IF songChanges > 0 THEN journalWrites + 1 ELSE journalWrites
    /\ calls' = IF songChanges > 0 THEN <<Call("WriteJournal", 0, FALSE)>> ELSE <<>>
    /\ constructed' = FALSE
    /\ stopwatch' = Stopwatch(0, 0, FALSE)
    /\ observer' = "idle"
    /\ song' = NoSong
    /\ played' = 0
    /\ paused' = FALSE
    /\ UNCHANGED <<configVars, now, songChanges, nowPlaying, ple>>

\* instance.Run() returns; the cleanup of main(); return EXIT_SUCCESS, which
\* destroys instance and config
Shutdown ==
    /\ pc = "run"
    /\ pc' = "exit"
    /\ journalWrites' = journalWrites + 1
    /\ calls' = <<Call("WriteJournal", 0, FALSE)>>
    /\ constructed' = FALSE
    /\ stopwatch' = Stopwatch(0, 0, FALSE)
    /\ observer' = "idle"
    /\ song' = NoSong
    /\ played' = 0
    /\ paused' = FALSE
    /\ UNCHANGED <<configVars, now, songChanges, nowPlaying, ple>>

-----------------------------------------------------------------------------
(* The configuration files and the initial states *)

Values == {"", "x"}

SectionLines ==
    {Line("section", n, TRUE, "") : n \in {"a", "b"}}

KeyLines(keys, values) ==
    {Line("key", k, TRUE, v) : k \in keys, v \in values}

BadLines ==
    {Line("other", "", FALSE, ""), Line("section", "a", FALSE, ""),
     Line("section", "", TRUE, ""), Line("section", "a", TRUE, "x"),
     Line("key", "file", FALSE, ""), Line("key", "no key", TRUE, "x")}

\* files of scrobbler sections
ScrobblerAlphabet ==
    SectionLines \cup BadLines \cup
    KeyLines({"file", "url", "username", "password"}, Values) \cup
    KeyLines({"journal"}, {"", "j"})

\* files with one section that writes to a file
FileAlphabet ==
    {Line("empty", "", FALSE, ""), Line("section", "a", TRUE, ""),
     Line("key", "file", TRUE, "x")}

Config0(conf) ==
    [conf |-> conf, loc |-> "file_unknown", scrobblers |-> <<>>,
     pidfile |-> "", daemon_user |-> "", log |-> "", host |-> "", proxy |-> "",
     port |-> 0, journal_interval |-> 600, verbose |-> 0 - 1]

Ple(elapsed, length) ==
    [elapsed |-> elapsed, length |-> length,
     result |-> played_long_enough(elapsed, length)]

\* the state main() is in after parse_cmdline
InitFrom(alpha, configs) ==
    /\ pc = "start"
    /\ error = ""
    /\ config \in configs
    /\ data = EmptyMap
    /\ section = NoSection
    /\ no = 1
    /\ alphabet = alpha
    /\ constructed = FALSE
    /\ now = 0
    /\ stopwatch = Stopwatch(0, 0, FALSE)
    /\ observer = "idle"
    /\ song = NoSong
    /\ songChanges = 0
    /\ nowPlaying = 0
    /\ journalWrites = 0
    /\ calls = <<>>
    /\ played = 0
    /\ paused = FALSE
    /\ ple = Ple(0, 0)

InitWith(alpha, confs) ==
    InitFrom(alpha, {Config0(conf) : conf \in confs})

Init ==
    InitWith(FileAlphabet, {"given.conf"})

Next ==
    \/ FileReadConfigBegin
    \/ ReadLine
    \/ EndOfFile
    \/ Startup
    \/ Tick
    \/ MpdStarted
    \/ MpdPlaying
    \/ MpdPaused
    \/ MpdResumed
    \/ MpdEnded
    \/ OnSaveJournalTimer
    \/ Shutdown

Spec == Init /\ [][Next]_vars

\* main() on any file of scrobbler sections, found anywhere or nowhere, with
\* a player that reports nothing while the event loop runs
InitConfig ==
    InitWith(ScrobblerAlphabet, {"", "given.conf"})

NextConfig ==
    \/ FileReadConfigBegin
    \/ ReadLine
    \/ EndOfFile
    \/ Startup
    \/ Shutdown

SpecConfig == InitConfig /\ [][NextConfig]_vars

\* files of settings, with one section that writes to a file
SettingsAlphabet ==
    {Line("section", "a", TRUE, ""), Line("key", "file", TRUE, "x")} \cup
    KeyLines({"pidfile", "log", "proxy"}, {"f"}) \cup
    KeyLines({"port"}, {"7", "-5"}) \cup
    KeyLines({"journal_interval", "cache_interval", "verbose"}, {"7"})

\* struct Config after a parse_cmdline that set the string settings, the
\* port and the journal interval, and the verbosity, each or not
CommandLineConfigs ==
    {[Config0("given.conf") EXCEPT
         !.pidfile = str, !.daemon_user = str, !.log = str, !.host = str,
         !.proxy = str, !.port = number[1], !.journal_interval = number[2],
         !.verbose = verbose] :
        str \in {"", "c"}, number \in {<<0, 600>>, <<6600, 60>>},
        verbose \in {0 - 1, 2}}

\* file_read_config on any file of settings, after any such command line
InitSettings ==
    InitFrom(SettingsAlphabet, CommandLineConfigs)

NextSettings ==
    \/ FileReadConfigBegin
    \/ ReadLine
    \/ EndOfFile

SpecSettings == InitSettings /\ [][NextSettings]_vars

\* played_long_enough on its own, on every pair of durations up to the bounds
MaxElapsed == 22
MaxLength == 41

Evaluate ==
    /\ \E elapsed \in 0..MaxElapsed, length \in 0..MaxLength :
         ple' = Ple(elapsed, length)
    /\ UNCHANGED <<pc, configVars, instanceVars, calls>>

NextPure ==
    Evaluate

SpecPure == Init /\ [][NextPure]_vars

-----------------------------------------------------------------------------
(* The calls of a step *)

CallNames(cs) ==
    [n \in 1..Len(cs) |-> cs[n].call]

Count(cs, name) ==
    Cardinality({n \in 1..Len(cs) : cs[n].call = name})

\* a step of the event loop in which the observer delivered Ended
EndedDelivered ==
    pc = "run" /\ pc' = "run" /\ observer # "idle" /\ observer' = "idle"

\* a step of the event loop in which the observer delivered a Playing tick
PlayingDelivered ==
    pc = "run" /\ calls' # <<>> /\ calls'[1].call = "OnMpdPlaying"

\* the calls of a Playing tick that found the song repeated
RepeatCalls(cs) ==
    Len(cs) > 1 /\ cs[1].call = "OnMpdPlaying"

-----------------------------------------------------------------------------
(* Claims *)

C4_AtLeastFourMinutes ==
    ple.elapsed >= FourMinutes => ple.result

\* C2: an Ended delivered by the observer hands exactly one Submission to the
\* coordinator when the stopwatch's elapsed time and the song's length
\* satisfy played_long_enough; otherwise it produces none and changes nothing.
C2_EndedSubmitsOnce ==
    [][EndedDelivered =>
         IF played_long_enough(GetDuration(stopwatch, now), GetSongDuration(song))
         THEN /\ songChanges' = songChanges + 1
              /\ CallNames(calls') = <<"OnMpdEnded", "SongChange">>
         ELSE /\ songChanges' = songChanges
              /\ CallNames(calls') = <<"OnMpdEnded">>
              /\ stopwatch' = stopwatch
              /\ nowPlaying' = nowPlaying
              /\ journalWrites' = journalWrites]_vars

C2_Witness ==
    /\ observer = "idle"
    /\ CallNames(calls) = <<"OnMpdEnded", "SongChange">>
    /\ songChanges = 1

\* C3: a Playing tick detects a repeat exactly when the reported elapsed is
\* under 1 minute, the stopwatch's elapsed is larger than it and their
\* difference satisfies played_long_enough against the song's length; then
\* Ended(love=false) is processed first and Started for the same song right
\* after it; otherwise the tick produces neither.
C3_RepeatDetection ==
    [][PlayingDelivered =>
         LET elapsed == calls'[1].length
             prev == GetDuration(stopwatch, now)
             names == CallNames(calls')
         IN  IF /\ elapsed < OneMinute
                /\ prev > elapsed
                /\ played_long_enough(prev - elapsed, GetSongDuration(song))
             THEN /\ names \in {<<"OnMpdPlaying", "OnMpdEnded", "SongChange",
                                  "OnMpdStarted", "NowPlaying">>,
                                <<"OnMpdPlaying", "OnMpdEnded",
                                  "OnMpdStarted", "NowPlaying">>}
                  /\ calls'[2].love = FALSE
                  /\ calls'[Len(calls')].length = GetSongDuration(song)
                  /\ song' = song
             ELSE names = <<"OnMpdPlaying">>]_vars

C3_Witness ==
    /\ RepeatCalls(calls)
    /\ calls[2].call = "OnMpdEnded"
    /\ calls[Len(calls) - 1].call = "OnMpdStarted"
    /\ GetSongDuration(song) = 12

\* C5: the time between Paused and the following Resumed is never counted:
\* the stopwatch's elapsed time is the time the song spent playing since its
\* Started.
C5_PauseNotCounted ==
    (pc = "run" /\ observer # "idle") => GetDuration(stopwatch, now) = played

C5_Witness ==
    /\ observer = "playing"
    /\ paused
    /\ stopwatch.duration > 0
    /\ now > stopwatch.start
    /\ played > stopwatch.duration

\* C6: when the event loop returns, WriteJournal is invoked exactly once
\* before the process exits, whatever happened before.
C6_ShutdownWritesJournal ==
    [][(pc = "run" /\ pc' # "run") =>
         /\ pc' = "exit"
         /\ journalWrites' = journalWrites + 1
         /\ CallNames(calls') = <<"WriteJournal">>]_vars

C6_Witness ==
    /\ pc = "exit"
    /\ CallNames(calls) = <<"WriteJournal">>
    /\ songChanges = 0
    /\ journalWrites = 1

\* C10: a detected repeat yields exactly one Submission: the stopwatch's
\* elapsed time qualifies whenever a repeat is detected, so the synthesized
\* Ended is never dropped, and the Started after it leaves the stopwatch at
\* zero.
C10_RepeatSubmitsOnce ==
    [][(PlayingDelivered /\ RepeatCalls(calls')) =>
         /\ played_long_enough(GetDuration(stopwatch, now), GetSongDuration(song))
         /\ Count(calls', "SongChange") = 1
         /\ songChanges' = songChanges + 1
         /\ GetDuration(stopwatch', now') = 0]_vars

C10_Witness ==
    /\ RepeatCalls(calls)
    /\ Count(calls, "SongChange") = 1
    /\ songChanges = 2

\* C7: when configuration loading ends with no backend configured, or no
\* configuration file is found, main() fails with an error; Instance is never
\* constructed, the event loop never runs and no journal is written.
C7_NoBackendNoStart ==
    [][/\ (pc \in {"start", "read"} /\ pc' # "read" /\ config'.scrobblers = <<>>)
          => (pc' = "failed" /\ error' # "")
       /\ pc' = "failed" => (~constructed' /\ journalWrites' = 0 /\ calls' = <<>>)
       /\ pc = "failed" => pc' = "failed"]_vars

C7_Witness ==
    /\ pc = "failed"
    /\ error = "No audioscrobbler host configured"
    /\ config.conf # ""
    /\ ~constructed

ValidBackend(s) ==
    /\ s.name # ""
    /\ \/ (s.file # "" /\ s.url = "")
       \/ (s.url # "" /\ s.file = "" /\ s.username # "" /\ s.password # "")

BackendOf(cfg, section_name) ==
    {i \in 1..Len(cfg.scrobblers) :
        cfg.scrobblers[i].name = IF section_name = "" THEN "last.fm" ELSE section_name}

\* file_read_config returned without an exception
ConfigLoaded ==
    pc = "read" /\ pc' = "configured"

\* C8 as stated: every backend of config.scrobblers has a name and exactly
\* one destination kind, and every section of the file either makes a
\* backend or makes loading fail.
C8_EverySectionLoadsOrFails ==
    [][/\ \A i \in 1..Len(config'.scrobblers) : ValidBackend(config'.scrobblers[i])
       /\ ConfigLoaded => \A n \in DOMAIN data : BackendOf(config', n) # {}]_vars

\* C8, amended: every backend of config.scrobblers has a name and exactly one
\* destination kind; every named section, and a default section that has a
\* 'username' key, either makes exactly one backend or makes loading fail; a
\* default section without a 'username' key is skipped and makes none.
C8_ValidBackends ==
    [][/\ \A i \in 1..Len(config'.scrobblers) : ValidBackend(config'.scrobblers[i])
       /\ ConfigLoaded =>
            \A n \in DOMAIN data :
                IF n = "" /\ "username" \notin DOMAIN data[n]
                THEN BackendOf(config', n) = {}
                ELSE Cardinality(BackendOf(config', n)) = 1]_vars

C8_Witness ==
    /\ pc = "configured"
    /\ Len(config.scrobblers) = 2
    /\ \E i, j \in 1..2 : /\ config.scrobblers[i].file # ""
                          /\ config.scrobblers[j].url # ""
                          /\ config.scrobblers[j].password # ""

\* C9: after configuration loading succeeds, no two backends of
\* config.scrobblers refer to the same journal file.
C9_DistinctJournals ==
    pc = "configured" =>
        \A i, j \in 1..Len(config.scrobblers) :
            (i # j /\ config.scrobblers[i].journal # "")
                => config.scrobblers[i].journal # config.scrobblers[j].journal

\* the settings of Config that differ from those of a Config nothing has set
SetStrings(cfg) ==
    {k \in {"pidfile", "daemon_user", "log", "host", "proxy"} : cfg[k] # ""}

SetNumbers(cfg) ==
    {k \in {"port", "journal_interval", "verbose"} : cfg[k] # Config0("")[k]}

\* C11: a setting already set by the command line is never changed by the
\* configuration file: each of pidfile, daemon_user, log, host, port, proxy,
\* journal_interval and verbose that is set before load_config_file runs has
\* the same value after it, whatever the file contains.
C11_CommandLineWins ==
    [][(pc = "read" /\ pc' = "configured") =>
         \A k \in SetStrings(config) \cup SetNumbers(config) :
             config'[k] = config[k]]_vars

\* the part of C11 the code keeps: the string settings and verbose
C11_StringsAndVerboseKept ==
    [][(pc = "read" /\ pc' = "configured") =>
         \A k \in SetStrings(config) \cup (SetNumbers(config) \cap {"verbose"}) :
             config'[k] = config[k]]_vars

=============================================================================
